---------------------------- MODULE Spec2Model ----------------------------
(***************************************************************************)
(* Model of the simulated sensor module (sensors.c, kept in                *)
(* src/unnamed/part_000) and of the airspeed filter                        *)
(* (flight/modules/StateEstimation/filterair.c).                           *)
(*                                                                         *)
(* Numbers.  A C float/double is modelled as a record [k, v]:              *)
(*   k = "fin": the finite value v / Scale (fixed point, milli-units),     *)
(*   k = "inf": +infinity (v = 1) or -infinity (v = -1),                   *)
(*   k = "nan": not-a-number.                                              *)
(* The IEEE rules for the special values are kept (NaN propagates, every   *)
(* ordered comparison with NaN is false, inf - inf = 0 * inf = NaN); the   *)
(* rounding of finite values is that of the fixed point, not of binary     *)
(* floating point.                                                         *)
(*                                                                         *)
(* Time.  PIOS_DELAY_GetRaw() is a microsecond clock; one tick of the task *)
(* reads it at a single instant "now".                                     *)
(***************************************************************************)
EXTENDS Integers, Sequences, FiniteSets, TLC

\* Fixed-point resolution of the finite values: v = 1000 stands for 1.0.
Scale == 10 * 10 * 10

\* ------------------------------------------------------------------------
\* Floating-point values and their arithmetic
\* ------------------------------------------------------------------------
Fin(n) == [k |-> "fin", v |-> n]
NaN    == [k |-> "nan", v |-> 0]
PInf   == [k |-> "inf", v |-> 1]
NInf   == [k |-> "inf", v |-> -1]
Zero   == Fin(0)
One    == Fin(Scale)

IsNaN(a) == a.k = "nan"
IsInf(a) == a.k = "inf"
IsFin(a) == a.k = "fin"

Sgn(n) == IF n > 0 THEN 1 ELSE IF n < 0 THEN -1 ELSE 0
Abs(n) == IF n < 0 THEN -n ELSE n
Inf(s) == [k |-> "inf", v |-> s]

\* |x| * |y| / d rounded away from zero, with the sign of x * y: a nonzero
\* product never rounds to zero (a float underflows only below 1e-38), so the
\* code's comparisons with zero see the sign the exact product has.  MagMulDiv
\* stays within 32 bits while y * d and the result do.
MagMulDiv(x, y, d) == (x \div d) * y + ((x % d) * y + d - 1) \div d
MulDiv(x, y, d) == Sgn(x) * Sgn(y) * MagMulDiv(Abs(x), Abs(y), d)
\* x * us / 10^6 rounded away from zero (us: microseconds below 10^6)
MagMulUs(x, us) == (x * (us \div 1000) + (x * (us % 1000) + 999) \div 1000 + 999) \div 1000

FNeg(a) == IF IsNaN(a) THEN NaN ELSE [k |-> a.k, v |-> -a.v]

FAdd(a, b) ==
    IF IsNaN(a) \/ IsNaN(b) THEN NaN
    ELSE IF IsInf(a) /\ IsInf(b) THEN (IF a.v = b.v THEN a ELSE NaN)
    ELSE IF IsInf(a) THEN a
    ELSE IF IsInf(b) THEN b
    ELSE Fin(a.v + b.v)

FSub(a, b) == FAdd(a, FNeg(b))

FMul(a, b) ==
    IF IsNaN(a) \/ IsNaN(b) THEN NaN
    ELSE IF IsInf(a) \/ IsInf(b)
         THEN (IF Sgn(a.v) * Sgn(b.v) = 0 THEN NaN ELSE Inf(Sgn(a.v) * Sgn(b.v)))
    ELSE Fin(MulDiv(a.v, b.v, Scale))

FDiv(a, b) ==
    IF IsNaN(a) \/ IsNaN(b) THEN NaN
    ELSE IF IsInf(a) /\ IsInf(b) THEN NaN
    ELSE IF IsInf(a) THEN Inf(IF b.v < 0 THEN -a.v ELSE a.v)
    ELSE IF IsInf(b) THEN Zero
    ELSE IF b.v = 0 THEN (IF a.v = 0 THEN NaN ELSE Inf(Sgn(a.v)))
    ELSE Fin(Sgn(b.v) * MulDiv(a.v, Scale, Abs(b.v)))

\* a < b, a > b, a == b, a != b of C: false (true for !=) when one is NaN
FLt(a, b) ==
    /\ ~IsNaN(a) /\ ~IsNaN(b)
    /\ IF IsInf(a) THEN a.v = -1 /\ ~(IsInf(b) /\ b.v = -1)
       ELSE IF IsInf(b) THEN b.v = 1
       ELSE a.v < b.v
FGt(a, b) == FLt(b, a)
FEq(a, b) == ~IsNaN(a) /\ ~IsNaN(b) /\ a = b
FNe(a, b) == ~FEq(a, b)
FLe(a, b) == FLt(a, b) \/ FEq(a, b)

\* integer square root, by bisection on lo <= r < hi
RECURSIVE ISqrtIn(_, _, _)
ISqrtIn(n, lo, hi) ==
    IF hi - lo <= 1 THEN lo
    ELSE LET mid == (lo + hi) \div 2
         IN  IF mid * mid <= n THEN ISqrtIn(n, mid, hi) ELSE ISqrtIn(n, lo, mid)
ISqrt(n) == ISqrtIn(n, 0, 46341)

FSqrt(a) ==
    IF IsNaN(a) THEN NaN
    ELSE IF IsInf(a) THEN (IF a.v = 1 THEN PInf ELSE NaN)
    ELSE IF a.v < 0 THEN NaN
    ELSE IF a.v <= 2000000 THEN Fin(ISqrt(a.v * Scale))
    ELSE Fin(ISqrt(a.v \div 10) * 100)

\* a * dT for an elapsed time dT held in microseconds
FMulUs(a, us) ==
    IF IsFin(a) THEN Fin(Sgn(a.v) * MagMulUs(Abs(a.v), us)) ELSE a

Vec(x, y, z) == <<x, y, z>>
ZeroVec == Vec(Zero, Zero, Zero)

Map3(F(_)) == << F(1), F(2), F(3) >>
Map4(F(_)) == << F(1), F(2), F(3), F(4) >>
VAdd(a, b) == Map3(LAMBDA i : FAdd(a[i], b[i]))
VSub(a, b) == Map3(LAMBDA i : FSub(a[i], b[i]))
\* row i of the 3x3 matrix m times the vector v
Row(m, i, v) == FAdd(FAdd(FMul(v[1], m[i][1]), FMul(v[2], m[i][2])), FMul(v[3], m[i][3]))

\* ------------------------------------------------------------------------
\* Program constants
\* ------------------------------------------------------------------------
\* GRAV 9.81, in milli-units
GRAV == 9810
F_PI == 3142
\* MAX_THRUST = GRAV * 2 in both models
MAX_THRUST == Fin(2 * GRAV)
\* ACTUATOR_ALPHA 0.99 (Quadcopter), 0.8 (Airplane); K_FRICTION 1 and 0.2
QUAD_ACTUATOR_ALPHA == 990
AIR_ACTUATOR_ALPHA == 800
QUAD_K_FRICTION == 1000
AIR_K_FRICTION == 200
LIFT_SPEED == 8000
ROLL_HEADING_COUPLING == 100
PITCH_THRUST_COUPLING == 200
\* "baro_offset = 50"
BARO_SEED == 50000
\* Periods.  The code tests DiffuS(last) / 1.0e6 > PERIOD with PERIOD a float
\* constant: 0.1f and 0.05f lie just above 0.1 and 0.05, (float)(1.0 / 75.0)
\* lies between 13333 us and 13334 us.  On whole microseconds the test is
\* therefore  elapsed * DEN > NUM  with the period NUM / DEN microseconds.
GPS_PERIOD_US == 100000
BARO_PERIOD_US == 50000
MAG_PERIOD_NUM == 1000000
MAG_PERIOD_DEN == 75
\* "if (dT < 1e-3) dT = 2e-3", in microseconds
DT_MIN_US == 1000
DT_DEFAULT_US == 2000
\* "static uint32_t last_gps_vel_time = 1000"
GPS_VEL_DELAY_US == 1000

Channels == {"baro", "gps", "gpsvel", "mag", "airspeed"}
QuadChannels == Channels \ {"airspeed"}
PeriodNum(ch) == CASE ch = "gps" -> GPS_PERIOD_US
                   [] ch = "gpsvel" -> GPS_PERIOD_US
                   [] ch = "mag" -> MAG_PERIOD_NUM
                   [] OTHER -> BARO_PERIOD_US
PeriodDen(ch) == IF ch = "mag" THEN MAG_PERIOD_DEN ELSE 1

\* ------------------------------------------------------------------------
\* The clock and the library calls
\* ------------------------------------------------------------------------
\* PIOS_DELAY_DiffuS(raw): microseconds from raw to now (the model's clock
\* stays far below the 32-bit wrap)
PIOS_DELAY_DiffuS(now, raw) == now - raw

\* Quaternion2R of CoordinateConversions
Quaternion2R(q) ==
    LET q0s == FMul(q[1], q[1])
        q1s == FMul(q[2], q[2])
        q2s == FMul(q[3], q[3])
        q3s == FMul(q[4], q[4])
        Two == Fin(2 * Scale)
    IN  << << FSub(FSub(FAdd(q0s, q1s), q2s), q3s),
              FMul(Two, FAdd(FMul(q[2], q[3]), FMul(q[1], q[4]))),
              FMul(Two, FSub(FMul(q[2], q[4]), FMul(q[1], q[3]))) >>,
           << FMul(Two, FSub(FMul(q[2], q[3]), FMul(q[1], q[4]))),
              FSub(FAdd(FSub(q0s, q1s), q2s), q3s),
              FMul(Two, FAdd(FMul(q[3], q[4]), FMul(q[1], q[2]))) >>,
           << FMul(Two, FAdd(FMul(q[2], q[4]), FMul(q[1], q[3]))),
              FMul(Two, FSub(FMul(q[3], q[4]), FMul(q[1], q[2]))),
              FAdd(FSub(FSub(q0s, q1s), q2s), q3s) >> >>

\* cosf / sinf of a yaw held in whole quarter turns (degrees)
CosDeg(y) == CASE y = 0 -> One [] y = 90 -> Zero [] y = 180 -> Fin(-Scale) [] OTHER -> Zero
SinDeg(y) == CASE y = 0 -> Zero [] y = 90 -> One [] y = 180 -> Zero [] OTHER -> Fin(-Scale)

\* ------------------------------------------------------------------------
\* Steps shared by simulateModelQuadcopter and simulateModelAirplane
\* ------------------------------------------------------------------------
\* Mutant of ElapsedUsed: a floor at the tested minimum
ElapsedFloored(measured) == IF measured < DT_MIN_US THEN DT_MIN_US ELSE measured

\* float dT = PIOS_DELAY_DiffuS(last_time) / 1e6; if (dT < 1e-3) dT = 2e-3;
ElapsedUsed(measured) == IF measured < DT_MIN_US THEN DT_DEFAULT_US ELSE measured

\* Mutant of Thrust: without the thrust != thrust test
ThrustUnchecked(armed, throttle) ==
    LET t0 == IF armed THEN FMul(throttle, MAX_THRUST) ELSE Zero
    IN  IF FLt(t0, Zero) THEN Zero ELSE t0

\* float thrust = armed ? Throttle * MAX_THRUST : 0;
\* if (thrust < 0) thrust = 0;  if (thrust != thrust) thrust = 0;
Thrust(armed, throttle) ==
    LET t0 == IF armed THEN FMul(throttle, MAX_THRUST) ELSE Zero
        t1 == IF FLt(t0, Zero) THEN Zero ELSE t0
    IN  IF FNe(t1, t1) THEN Zero ELSE t1

\* rpy[i] = armed * cmd * gain * (1 - ALPHA) + rpy[i] * ALPHA
LowPass(armed, cmd, gain, alpha, old) ==
    FAdd(FMul(FMul(FMul(IF armed THEN One ELSE Zero, cmd), gain), Fin(Scale - alpha)),
         FMul(old, Fin(alpha)))

\* The Euler step of the attitude and its normalisation
QDot(q, rpy, dT) ==
    LET h(x) == FDiv(FDiv(FMul(FMulUs(x, dT), Fin(F_PI)), Fin(180 * Scale)), Fin(2 * Scale))
    IN  << h(FSub(FSub(FMul(FNeg(q[2]), rpy[1]), FMul(q[3], rpy[2])), FMul(q[4], rpy[3]))),
           h(FAdd(FSub(FMul(q[1], rpy[1]), FMul(q[4], rpy[2])), FMul(q[3], rpy[3]))),
           h(FSub(FAdd(FMul(q[4], rpy[1]), FMul(q[1], rpy[2])), FMul(q[2], rpy[3]))),
           h(FAdd(FAdd(FMul(FNeg(q[3]), rpy[1]), FMul(q[2], rpy[2])), FMul(q[1], rpy[3]))) >>

\* q[i] = q[i] + qdot[i]
QAdd(q, qd) == Map4(LAMBDA i : FAdd(q[i], qd[i]))
\* qmag = sqrtf(q[0]^2 + q[1]^2 + q[2]^2 + q[3]^2)
QMag(q) == FSqrt(FAdd(FAdd(FAdd(FMul(q[1], q[1]), FMul(q[2], q[2])), FMul(q[3], q[3])),
                      FMul(q[4], q[4])))
\* q[i] = q[i] / qmag
QScale(q, qmag) == Map4(LAMBDA i : FDiv(q[i], qmag))
\* Mutant of Normalise: the quaternion is kept as the Euler step left it
NormaliseSkipped(q) == q

Normalise(q) == QScale(q, QMag(q))
Integrate(q, rpy, dT) == Normalise(QAdd(q, QDot(q, rpy, dT)))

\* x = x * decay + rand_gauss() / div, for each component
Drift(x, decay, noise, div) ==
    Map3(LAMBDA i : FAdd(FMul(x[i], Fin(decay)), FDiv(noise[i], Fin(div * Scale))))

\* x[i] += dx[i] * dT
Predict(x, dx, dT) == Map3(LAMBDA i : FAdd(x[i], FMulUs(dx[i], dT)))

\* Mutant of Ground: without the ground contact
GroundAbsent(pos, vel, acc, dT) ==
    [pos |-> Predict(pos, Predict(vel, acc, dT), dT), vel |-> Predict(vel, acc, dT),
     acc |-> acc, hit |-> FALSE]

\* Mutant of Contact: hitting the ground stops the position only
ContactPosOnly(pos, vel, acc, hit) ==
    [pos |-> IF hit THEN [pos EXCEPT ![3] = Zero] ELSE pos,
     vel |-> vel, acc |-> acc, hit |-> hit]

\* Predict velocity and position forward, then "Simulate hitting ground"
\* if (pos[2] > 0) { pos[2] = 0; vel[2] = 0; ned_accel[2] = 0; }
Contact(pos, vel, acc, hit) ==
    [pos |-> IF hit THEN [pos EXCEPT ![3] = Zero] ELSE pos,
     vel |-> IF hit THEN [vel EXCEPT ![3] = Zero] ELSE vel,
     acc |-> IF hit THEN [acc EXCEPT ![3] = Zero] ELSE acc,
     hit |-> hit]
Landed(pos, vel, acc) == Contact(pos, vel, acc, FGt(pos[3], Zero))
Ground(pos, vel, acc, dT) ==
    Landed(Predict(pos, Predict(vel, acc, dT), dT), Predict(vel, acc, dT), acc)

\* Mutant of BaroOffset: the offset is never seeded
BaroOffsetUnseeded(old, noise) == FAdd(old, FDiv(noise, Fin(100 * Scale)))

\* if (baro_offset == 0) baro_offset = 50; else baro_offset += rand_gauss() / 100;
BaroOffset(old, noise) ==
    IF FEq(old, Zero) THEN Fin(BARO_SEED) ELSE FAdd(old, FDiv(noise, Fin(100 * Scale)))

\* The static last_<channel>_time of a model
Timer(s, ch) == CASE ch = "baro" -> s.last_baro_time
                  [] ch = "gps" -> s.last_gps_time
                  [] ch = "gpsvel" -> s.last_gps_vel_time
                  [] ch = "mag" -> s.last_mag_time
                  [] OTHER -> s.last_airspeed_time

\* Mutant of Due: the block runs as soon as the period is reached
DueAtPeriod(now, last, ch) == PIOS_DELAY_DiffuS(now, last) * PeriodDen(ch) >= PeriodNum(ch)

\* if (PIOS_DELAY_DiffuS(last_x_time) / 1.0e6 > X_PERIOD)
Due(now, last, ch) == PIOS_DELAY_DiffuS(now, last) * PeriodDen(ch) > PeriodNum(ch)

\* Mutant of DueSet: the blocks chained by "else", the barometer first
DueSetChained(now, s, chans) ==
    IF PIOS_DELAY_DiffuS(now, s.last_baro_time) > BARO_PERIOD_US THEN {"baro"}
    ELSE {ch \in chans : PIOS_DELAY_DiffuS(now, Timer(s, ch)) * PeriodDen(ch) > PeriodNum(ch)}

\* The channels whose "Update ... periodically" block runs this tick: each
\* block tests its own timer only
DueSet(now, s, chans) == {ch \in chans : Due(now, Timer(s, ch), ch)}

\* Mutant of Stamp: the block forgets to restart its timer
StampMissing(now, s, ch, due) == Timer(s, ch)

\* last_x_time = PIOS_DELAY_GetRaw(), inside the block only
Stamp(now, s, ch, due) == IF ch \in due THEN now ELSE Timer(s, ch)

\* The UAVObject a channel publishes
Object(ch) == CASE ch = "baro" -> "BaroAltitude"
                [] ch = "gps" -> "GPSPosition"
                [] ch = "gpsvel" -> "GPSVelocity"
                [] ch = "mag" -> "Magnetometer"
                [] OTHER -> "AirspeedSensor"


\* ------------------------------------------------------------------------
\* magOffsetEstimation (the #else branch, the one compiled)
\* ------------------------------------------------------------------------
\* Returns the magnetometer reading with the bias estimate removed and the
\* updated MagBias object, in the steps of the code.

\* B_e = R^T (mag - bias): the reading rotated into the earth frame
MagEarth(m, R) ==
    Map3(LAMBDA j : FAdd(FAdd(FMul(R[1][j], m[1]), FMul(R[2][j], m[2])), FMul(R[3][j], m[3])))
\* xy = the horizontal part of B_e turned by the yaw
MagXY(B_e, cy, sy) ==
    << FAdd(FMul(cy, B_e[1]), FMul(sy, B_e[2])),
       FAdd(FMul(FNeg(sy), B_e[1]), FMul(cy, B_e[2])) >>
Norm2(xy) == FSqrt(FAdd(FMul(xy[1], xy[1]), FMul(xy[2], xy[2])))
\* Mutant of MagDelta: the correction applied with the opposite sign
MagDeltaReversed(B_e, xy, xy_norm, Rxy, Rz, rate) ==
    << FMul(rate, FSub(FMul(FDiv(xy[1], xy_norm), Rxy), xy[1])),
       FMul(rate, FSub(FMul(FDiv(xy[2], xy_norm), Rxy), xy[2])),
       FMul(rate, FSub(Rz, B_e[3])) >>

\* delta[i] = -rate * (xy[i] / xy_norm * Rxy - xy[i]);  delta[2] = -rate * (Rz - B_e[2])
MagDelta(B_e, xy, xy_norm, Rxy, Rz, rate) ==
    << FMul(FNeg(rate), FSub(FMul(FDiv(xy[1], xy_norm), Rxy), xy[1])),
       FMul(FNeg(rate), FSub(FMul(FDiv(xy[2], xy_norm), Rxy), xy[2])),
       FMul(FNeg(rate), FSub(Rz, B_e[3])) >>
MagStep(B_e, xy, home) ==
    MagDelta(B_e, xy, Norm2(xy), Norm2(<< home.Be[1], home.Be[2] >>), home.Be[3], Fin(10))
MagCorrect(m, magBias, home, att, B_e) ==
    [mag |-> m,
     magBias |-> VAdd(magBias, MagStep(B_e, MagXY(B_e, CosDeg(att.Yaw), SinDeg(att.Yaw)), home))]
MagRotate(m, magBias, home, att) ==
    MagCorrect(m, magBias, home, att, MagEarth(m, Quaternion2R(att.q)))
magOffsetEstimation(mag, magBias, home, att) ==
    MagRotate(VSub(mag, magBias), magBias, home, att)

\* ------------------------------------------------------------------------
\* simulateModelQuadcopter
\* ------------------------------------------------------------------------
\* s: the function's static variables; b: the UAVObjects; now: the clock;
\* in: the objects read this tick; in.noise[i]: the i-th rand_gauss() draw
\* (1..3 gyros, 4..6 wind, 7 baro drift, 8..10 GPS velocity drift, 11..13
\* GPS position drift).  Of GPSPosition only Altitude, Satellites and PDOP are
\* kept (Latitude, Longitude, Groundspeed and Heading go through cos, atan2
\* and pow of doubles); of AttitudeSimulated the quaternion, position and
\* velocity (Roll, Pitch, Yaw come from Quaternion2RPY).  overideAttitude is
\* false and nothing in the module sets it.

\* The locals that depend on the statics and the inputs only
QuadLocals(s, now, in) ==
    [measured |-> PIOS_DELAY_DiffuS(now, s.last_time),
     dT |-> ElapsedUsed(PIOS_DELAY_DiffuS(now, s.last_time)),
     thrust |-> Thrust(in.Armed, in.Throttle),
     rpy |-> << LowPass(in.Armed, in.Roll, Fin(250 * Scale), QUAD_ACTUATOR_ALPHA, s.rpy[1]),
                LowPass(in.Armed, in.Pitch, Fin(250 * Scale), QUAD_ACTUATOR_ALPHA, s.rpy[2]),
                LowPass(in.Armed, in.Yaw, Fin(250 * Scale), QUAD_ACTUATOR_ALPHA, s.rpy[3]) >>,
     wind |-> Drift(s.wind, 950, << in.noise[4], in.noise[5], in.noise[6] >>, 10),
     baro_offset |-> BaroOffset(s.baro_offset, in.noise[7]),
     due |-> DueSet(now, s, QuadChannels),
     gps_vel_drift |-> Drift(s.gps_vel_drift, 650,
                             << in.noise[8], in.noise[9], in.noise[10] >>, 5)]
\* gyros, the attitude and the GPS drift (updated inside the GPS block only)
Attitude(s, in, x) ==
    x @@ [gyros |-> Map3(LAMBDA i : FAdd(x.rpy[i], in.noise[i])),
          q |-> Integrate(s.q, x.rpy, x.dT),
          gps_drift |-> IF "gps" \in x.due
                        THEN Drift(s.gps_drift, 950,
                                   << in.noise[11], in.noise[12], in.noise[13] >>, 10)
                        ELSE s.gps_drift]
Rotation(x) == x @@ [Rbe |-> Quaternion2R(x.q)]
\* ned_accel = -thrust * Rbe[2][.] + (0, 0, GRAV) - K_FRICTION * (vel - wind)
QuadAccel(s, x) ==
    Map3(LAMBDA i :
           FSub(FAdd(FMul(FNeg(x.thrust), x.Rbe[3][i]), IF i = 3 THEN Fin(GRAV) ELSE Zero),
                FMul(Fin(QUAD_K_FRICTION), FSub(s.vel[i], x.wind[i]))))
QuadMotion(s, x) == x @@ [g |-> Ground(s.pos, s.vel, QuadAccel(s, x), x.dT)]
\* ned_accel[2] -= 9.81, and the magnetometer reading
Sensed(b, in, x, mag) ==
    x @@ [acc |-> [x.g.acc EXCEPT ![3] = FSub(x.g.acc[3], Fin(GRAV))],
          mo |-> magOffsetEstimation(mag, b.MagBias, in.home, in.att)]
\* mag = Rbe Be
QuadSensed(b, in, x) == Sensed(b, in, x, Map3(LAMBDA i : Row(x.Rbe, i, in.home.Be)))
QuadPublish(s, b, accel_bias, now, in, x) ==
    [st |-> [pos |-> x.g.pos, vel |-> x.g.vel, ned_accel |-> x.acc, q |-> x.q,
             rpy |-> x.rpy, baro_offset |-> x.baro_offset, last_time |-> now,
             wind |-> x.wind,
             last_baro_time |-> Stamp(now, s, "baro", x.due),
             gps_vel_drift |-> x.gps_vel_drift,
             last_gps_time |-> Stamp(now, s, "gps", x.due),
             gps_drift |-> x.gps_drift,
             last_gps_vel_time |-> Stamp(now, s, "gpsvel", x.due),
             last_mag_time |-> Stamp(now, s, "mag", x.due)],
     bus |-> [b EXCEPT
             !.Gyros = x.gyros,
             !.Accels = [v |-> Map3(LAMBDA i : FAdd(Row(x.Rbe, i, x.acc), accel_bias[i])),
                         temperature |-> 30],
             !.BaroAltitude = IF "baro" \in x.due
                              THEN FAdd(FNeg(x.g.pos[3]), x.baro_offset) ELSE @,
             !.GPSPosition = IF "gps" \in x.due
                             THEN [Altitude |-> FAdd(in.home.Altitude,
                                                 FDiv(FAdd(x.g.pos[3], x.gps_drift[3]),
                                                      Fin(-Scale))),
                                   Satellites |-> 7, PDOP |-> 1]
                             ELSE @,
             !.GPSVelocity = IF "gpsvel" \in x.due THEN VAdd(x.g.vel, x.gps_vel_drift) ELSE @,
             !.Magnetometer = IF "mag" \in x.due THEN x.mo.mag ELSE @,
             !.MagBias = IF "mag" \in x.due THEN x.mo.magBias ELSE @,
             !.AttitudeSimulated = [q |-> x.q, Position |-> x.g.pos, Velocity |-> x.g.vel]],
     loc |-> [measured |-> x.measured, dT |-> x.dT, thrust |-> x.thrust, hit |-> x.g.hit,
              emitted |-> x.due,
              written |-> {"Gyros", "Accels", "AttitudeSimulated"}
                          \cup {Object(ch) : ch \in x.due}
                          \cup (IF "mag" \in x.due THEN {"MagBias"} ELSE {})]]
simulateModelQuadcopter(s, b, accel_bias, now, in) ==
    QuadPublish(s, b, accel_bias, now, in,
        QuadSensed(b, in, QuadMotion(s, Rotation(Attitude(s, in, QuadLocals(s, now, in))))))

\* ------------------------------------------------------------------------
\* simulateModelAirplane
\* ------------------------------------------------------------------------
\* As for the Quadcopter; the airspeed channel runs on BARO_PERIOD.

\* The locals that depend on the statics and the inputs only; the wind is
\* drifted and then set to zero (lines 666-672)
AirLocals(s, now, in) ==
    [measured |-> PIOS_DELAY_DiffuS(now, s.last_time),
     dT |-> ElapsedUsed(PIOS_DELAY_DiffuS(now, s.last_time)),
     thrust |-> Thrust(in.Armed, in.Throttle),
     rpy |-> << LowPass(in.Armed, in.rate[1], One, AIR_ACTUATOR_ALPHA, s.rpy[1]),
                LowPass(in.Armed, in.rate[2], One, AIR_ACTUATOR_ALPHA, s.rpy[2]),
                FAdd(LowPass(in.Armed, in.rate[3], One, AIR_ACTUATOR_ALPHA, s.rpy[3]),
                     FMul(in.att.Roll, Fin(ROLL_HEADING_COUPLING))) >>,
     wind |-> ZeroVec,
     baro_offset |-> BaroOffset(s.baro_offset, in.noise[7]),
     due |-> DueSet(now, s, Channels),
     gps_vel_drift |-> Drift(s.gps_vel_drift, 650,
                             << in.noise[8], in.noise[9], in.noise[10] >>, 5)]
\* forward, sideways and downward airspeed: Rbe (vel - wind)
BodyAirspeed(s, x) == x @@ [airspeed |-> Map3(LAMBDA i : Row(x.Rbe, i, VSub(s.vel, x.wind)))]
\* forces[0..2]
Forces(in, x) ==
    x @@ [forces |->
            << FSub(FSub(x.thrust, FMul(in.att.Pitch, Fin(PITCH_THRUST_COUPLING))),
                    FMul(x.airspeed[1], Fin(AIR_K_FRICTION))),
               FSub(Zero, FMul(FMul(x.airspeed[2], Fin(AIR_K_FRICTION)), Fin(100 * Scale))),
               FAdd(FMul(Fin(GRAV), FSub(x.airspeed[1], Fin(LIFT_SPEED))),
                    FMul(FMul(x.airspeed[3], Fin(AIR_K_FRICTION)), Fin(100 * Scale))) >>]
\* ned_accel = Rbe^T-style sum of the forces, + (0, 0, GRAV), - K_FRICTION * (vel - wind)
AirAccel(s, x) ==
    Map3(LAMBDA j :
           FSub(FAdd(FSub(FAdd(FMul(x.forces[1], x.Rbe[1][j]), FMul(x.forces[2], x.Rbe[2][j])),
                          FMul(x.forces[3], x.Rbe[3][j])),
                     IF j = 3 THEN Fin(GRAV) ELSE Zero),
                FMul(Fin(AIR_K_FRICTION), FSub(s.vel[j], x.wind[j]))))
AirMotion(s, x) == x @@ [g |-> Ground(s.pos, s.vel, AirAccel(s, x), x.dT)]
\* mag = 100 + Rbe Be
AirSensed(b, in, x) ==
    Sensed(b, in, x, Map3(LAMBDA i : FAdd(Fin(100 * Scale), Row(x.Rbe, i, in.home.Be))))
AirPublish(s, b, accel_bias, now, in, x) ==
    [st |-> [pos |-> x.g.pos, vel |-> x.g.vel, ned_accel |-> x.acc, q |-> x.q,
             rpy |-> x.rpy, baro_offset |-> x.baro_offset, last_time |-> now,
             wind |-> x.wind,
             last_baro_time |-> Stamp(now, s, "baro", x.due),
             last_airspeed_time |-> Stamp(now, s, "airspeed", x.due),
             gps_vel_drift |-> x.gps_vel_drift,
             last_gps_time |-> Stamp(now, s, "gps", x.due),
             gps_drift |-> x.gps_drift,
             last_gps_vel_time |-> Stamp(now, s, "gpsvel", x.due),
             last_mag_time |-> Stamp(now, s, "mag", x.due)],
     bus |-> [b EXCEPT
             !.Gyros = x.gyros,
             !.Accels = [v |-> Map3(LAMBDA i : FAdd(Row(x.Rbe, i, x.acc), accel_bias[i])),
                         temperature |-> 30],
             !.BaroAltitude = IF "baro" \in x.due
                              THEN FAdd(FNeg(x.g.pos[3]), x.baro_offset) ELSE @,
             !.AirspeedSensor = IF "airspeed" \in x.due
                                THEN [SensorConnected |-> TRUE,
                                      CalibratedAirspeed |-> x.airspeed[1]]
                                ELSE @,
             !.GPSPosition = IF "gps" \in x.due
                             THEN [Altitude |-> FAdd(in.home.Altitude,
                                                 FDiv(FAdd(x.g.pos[3], x.gps_drift[3]),
                                                      Fin(-Scale))),
                                   Satellites |-> 7, PDOP |-> 1]
                             ELSE @,
             !.GPSVelocity = IF "gpsvel" \in x.due THEN VAdd(x.g.vel, x.gps_vel_drift) ELSE @,
             !.Magnetometer = IF "mag" \in x.due THEN x.mo.mag ELSE @,
             !.MagBias = IF "mag" \in x.due THEN x.mo.magBias ELSE @,
             !.AttitudeSimulated = [q |-> x.q, Position |-> x.g.pos, Velocity |-> x.g.vel]],
     loc |-> [measured |-> x.measured, dT |-> x.dT, thrust |-> x.thrust, hit |-> x.g.hit,
              emitted |-> x.due,
              written |-> {"Gyros", "Accels", "AttitudeSimulated"}
                          \cup {Object(ch) : ch \in x.due}
                          \cup (IF "mag" \in x.due THEN {"MagBias"} ELSE {})]]
simulateModelAirplane(s, b, accel_bias, now, in) ==
    AirPublish(s, b, accel_bias, now, in,
        AirSensed(b, in,
            AirMotion(s, Forces(in, BodyAirspeed(s,
                Rotation(Attitude(s, in, AirLocals(s, now, in))))))))

\* ------------------------------------------------------------------------
\* simulateModelAgnostic
\* ------------------------------------------------------------------------
\* No static state: accelerometer from the attitude estimate, gyros from the
\* desired rates, and fixed barometer, GPS position and magnetometer values on
\* every call.
AgnosticPublish(b, in, Rbe) ==
    [bus |-> [b EXCEPT
             !.Accels = [v |-> Map3(LAMBDA i : FMul(Fin(-GRAV), Rbe[i][3])),
                         temperature |-> 30],
             !.Gyros = Map3(LAMBDA i : FAdd(FAdd(in.rate[i], in.noise[i]), in.gyrosBias[i])),
             !.BaroAltitude = One,
             !.GPSPosition = [@ EXCEPT !.Altitude = Zero],
             !.Magnetometer = << Fin(400 * Scale), Zero, Fin(800 * Scale) >>],
     loc |-> [measured |-> 0, dT |-> 0, thrust |-> Zero, hit |-> FALSE,
              emitted |-> {},
              written |-> {"Accels", "Gyros", "BaroAltitude", "GPSPosition",
                           "Magnetometer"}]]
simulateModelAgnostic(b, in) == AgnosticPublish(b, in, Quaternion2R(in.att.q))

\* ------------------------------------------------------------------------
\* simulateConstant (in the switch of SensorsTask; no airframe type selects it)
\* ------------------------------------------------------------------------
simulateConstant(b, in) ==
    [bus |-> [b EXCEPT
             !.Accels = [v |-> << Zero, Zero, Fin(-GRAV) >>, temperature |-> 0],
             !.Gyros = in.gyrosBias,
             !.BaroAltitude = One,
             !.GPSPosition = [@ EXCEPT !.Altitude = Zero],
             !.Magnetometer = << Fin(400 * Scale), Zero, Fin(800 * Scale) >>],
     loc |-> [measured |-> 0, dT |-> 0, thrust |-> Zero, hit |-> FALSE,
              emitted |-> {},
              written |-> {"Accels", "Gyros", "BaroAltitude", "GPSPosition",
                           "Magnetometer"}]]

\* ------------------------------------------------------------------------
\* airspeed filter (filterair.c)
\* ------------------------------------------------------------------------
\* IAS2TAS(alt) (1.0f + (0.02f * (alt) / 304.8f))
IAS2TAS(alt) == FAdd(One, FDiv(FMul(Fin(20), alt), Fin(304800)))

\* Mutant of init: the altitude is kept
initKeeping(alt) == [altitude |-> alt, ret |-> 0]

\* static int32_t init(void): alt is the static altitude before the call
init(alt) == [altitude |-> Zero, ret |-> 0]

\* Mutant of filter: the airspeed is corrected before the altitude is stored
filterStale(alt, state) ==
    [altitude |-> IF "bar" \in state.updated THEN state.bar ELSE alt,
     state |-> [state EXCEPT !.air = << state.air[1],
                                        IF "air" \in state.updated
                                        THEN FMul(state.air[1], IAS2TAS(alt))
                                        ELSE state.air[2] >>],
     ret |-> 0]

\* Mutant of filter: the flags it has served are cleared
filterClearing(alt, state) ==
    [altitude |-> IF "bar" \in state.updated THEN state.bar ELSE alt,
     state |-> [state EXCEPT !.updated = {},
                             !.air = << state.air[1],
                                        IF "air" \in state.updated
                                        THEN FMul(state.air[1],
                                                  IAS2TAS(IF "bar" \in state.updated
                                                          THEN state.bar ELSE alt))
                                        ELSE state.air[2] >>],
     ret |-> 0]

\* static int32_t filter(stateEstimation *state): alt is the static altitude,
\* state = [updated, bar, air] with air = << air[0], air[1] >>
filter(alt, state) ==
    LET altitude1 == IF "bar" \in state.updated THEN state.bar ELSE alt
        air1 == IF "air" \in state.updated
                THEN FMul(state.air[1], IAS2TAS(altitude1))
                ELSE state.air[2]
    IN  [altitude |-> altitude1,
         state |-> [state EXCEPT !.air = << state.air[1], air1 >>],
         ret |-> 0]

\* ------------------------------------------------------------------------
\* State
\* ------------------------------------------------------------------------
VARIABLES
    clock,            \* PIOS_DELAY_GetRaw(), microseconds
    sensor_sim_type,  \* the global enum sensor_sim_type
    sensors_count,    \* the global int sensors_count
    accel_bias,       \* static float accel_bias[3], set by SensorsInitialize
    quad,             \* the static variables of simulateModelQuadcopter
    air,              \* the static variables of simulateModelAirplane
    bus,              \* the UAVObjects the module writes
    obs,              \* what the last tick read, ran and computed (its locals)
    switches,         \* how often the selected model changed between ticks
    emitLast,         \* per published object: time of its last update, or -1
    emitGap,          \* per published object: its last inter-update interval, or -1
    modelLast,        \* per model and channel: time of its last emission, or -1
    modelGap,         \* per model and channel: [gap, steady] of its last emission
    stepLast,         \* per model: the time of its last step (or -1), the elapsed
                      \* time dT that step used and the one its step before used
    altitude,         \* filterair.c: static float altitude
    fstate,           \* the stateEstimation record after the last filter call
    fhist,            \* the calls made to the airspeed filter, in order
    magcal,           \* magOffsetEstimation alone: the raw reading and the attitude
                      \* it is given, and the number of calls made
    task              \* the control flow of SensorsTask alone: where the task is in
                      \* its loop, the rand_gauss calls left in this tick, the last
                      \* draw, and the ticks completed

sensorVars == << clock, sensor_sim_type, sensors_count, accel_bias, quad, air, bus, obs,
                 switches, emitLast, emitGap, modelLast, modelGap, stepLast >>
filterVars == << altitude, fstate, fhist >>
vars == << clock, sensor_sim_type, sensors_count, accel_bias, quad, air, bus, obs,
           switches, emitLast, emitGap, modelLast, modelGap, stepLast, altitude, fstate,
           fhist, magcal, task >>

Models == {"MODEL_QUADCOPTER", "MODEL_AIRPLANE"}
Scheduled == {"BaroAltitude", "GPSPosition", "GPSVelocity", "Magnetometer", "AirspeedSensor"}
ChannelsOf(m) == IF m = "MODEL_AIRPLANE" THEN Channels ELSE QuadChannels

\* vTaskDelay(2 / portTICK_RATE_MS): the nominal tick, microseconds
TICK_US == 2000

Identity == << One, Zero, Zero, Zero >>

QuadInit ==
    [pos |-> ZeroVec, vel |-> ZeroVec, ned_accel |-> ZeroVec, q |-> Identity,
     rpy |-> ZeroVec, baro_offset |-> Zero, last_time |-> 0, wind |-> ZeroVec,
     last_baro_time |-> 0, gps_vel_drift |-> ZeroVec, last_gps_time |-> 0,
     gps_drift |-> ZeroVec, last_gps_vel_time |-> GPS_VEL_DELAY_US, last_mag_time |-> 0]

AirInit ==
    [pos |-> ZeroVec, vel |-> ZeroVec, ned_accel |-> ZeroVec, q |-> Identity,
     rpy |-> ZeroVec, baro_offset |-> Zero, last_time |-> 0, wind |-> ZeroVec,
     last_baro_time |-> 0, last_airspeed_time |-> 0, gps_vel_drift |-> ZeroVec,
     last_gps_time |-> 0, gps_drift |-> ZeroVec, last_gps_vel_time |-> GPS_VEL_DELAY_US,
     last_mag_time |-> 0]

\* UAVObjects after their Initialize(): all fields zero
BusInit ==
    [Accels |-> [v |-> ZeroVec, temperature |-> 0], Gyros |-> ZeroVec,
     BaroAltitude |-> Zero,
     GPSPosition |-> [Altitude |-> Zero, Satellites |-> 0, PDOP |-> 0],
     GPSVelocity |-> ZeroVec, Magnetometer |-> ZeroVec, MagBias |-> ZeroVec,
     AirspeedSensor |-> [SensorConnected |-> FALSE, CalibratedAirspeed |-> Zero],
     AttitudeSimulated |-> [q |-> << Zero, Zero, Zero, Zero >>, Position |-> ZeroVec,
                            Velocity |-> ZeroVec]]

ObsInit ==
    [ran |-> "none", now |-> 0, AirframeType |-> "none", Armed |-> FALSE,
     Throttle |-> Zero, measured |-> 0, dT |-> 0, thrust |-> Zero, hit |-> FALSE,
     emitted |-> {}, written |-> {}, in |-> <<>>]

\* ------------------------------------------------------------------------
\* SensorsTask: one pass of the main task loop
\* ------------------------------------------------------------------------
FixedWingTypes == {"FIXEDWING", "FIXEDWINGELEVON", "FIXEDWINGVTAIL"}
MultirotorTypes == {"QUADX", "QUADP", "VTOL", "HEXA", "OCTO"}

\* Mutant of Select: the default case keeps the initial simulation type
SelectKeeping(airframeType) ==
    IF airframeType \in FixedWingTypes THEN "MODEL_AIRPLANE"
    ELSE IF airframeType \in MultirotorTypes THEN "MODEL_QUADCOPTER"
    ELSE "CONSTANT"

\* switch (systemSettings.AirframeType)
Select(airframeType) ==
    IF airframeType \in FixedWingTypes THEN "MODEL_AIRPLANE"
    ELSE IF airframeType \in MultirotorTypes THEN "MODEL_QUADCOPTER"
    ELSE "MODEL_AGNOSTIC"

\* The statics, the bus and the locals after the step function "ran" returned
\* r: its own statics are r.st, the other model's are "other"
Ran(ran, r, other) ==
    [quad |-> IF ran = "simulateModelQuadcopter" THEN r.st ELSE other,
     air |-> IF ran = "simulateModelAirplane" THEN r.st ELSE other,
     bus |-> r.bus, loc |-> r.loc, ran |-> ran]
\* ... and after a step function without statics
Idle2(r, qs, as) == [quad |-> qs, air |-> as, bus |-> r.bus, loc |-> r.loc, ran |-> "none"]

\* Mutant of Dispatch: a model that is not selected loses its statics
DispatchResetting(type, qs, as, b, ab, now, in) ==
    CASE type = "MODEL_QUADCOPTER" ->
           Ran("simulateModelQuadcopter", simulateModelQuadcopter(qs, b, ab, now, in), AirInit)
      [] type = "MODEL_AIRPLANE" ->
           Ran("simulateModelAirplane", simulateModelAirplane(as, b, ab, now, in), QuadInit)
      [] OTHER ->
           [Idle2(simulateModelAgnostic(b, in), QuadInit, AirInit)
              EXCEPT !.ran = "simulateModelAgnostic"]

\* Mutant of Dispatch: a model that is not selected has its clock restarted
DispatchRestamping(type, qs, as, b, ab, now, in) ==
    CASE type = "MODEL_QUADCOPTER" ->
           Ran("simulateModelQuadcopter", simulateModelQuadcopter(qs, b, ab, now, in),
               [as EXCEPT !.last_time = now])
      [] type = "MODEL_AIRPLANE" ->
           Ran("simulateModelAirplane", simulateModelAirplane(as, b, ab, now, in),
               [qs EXCEPT !.last_time = now])
      [] OTHER ->
           [Idle2(simulateModelAgnostic(b, in), [qs EXCEPT !.last_time = now],
                  [as EXCEPT !.last_time = now])
              EXCEPT !.ran = "simulateModelAgnostic"]

\* switch (sensor_sim_type)
Dispatch(type, qs, as, b, ab, now, in) ==
    CASE type = "MODEL_QUADCOPTER" ->
           Ran("simulateModelQuadcopter", simulateModelQuadcopter(qs, b, ab, now, in), as)
      [] type = "MODEL_AIRPLANE" ->
           Ran("simulateModelAirplane", simulateModelAirplane(as, b, ab, now, in), qs)
      [] type = "MODEL_AGNOSTIC" ->
           [Idle2(simulateModelAgnostic(b, in), qs, as) EXCEPT !.ran = "simulateModelAgnostic"]
      [] OTHER ->
           [Idle2(simulateConstant(b, in), qs, as) EXCEPT !.ran = "simulateConstant"]

\* One pass of while (1) with the objects read as "in", followed by a delay
\* of d microseconds.
SensorsTask(in, d) ==
    \E r \in {Dispatch(Select(in.AirframeType), quad, air, bus, accel_bias, clock, in)} :
    LET type == Select(in.AirframeType)
        now == clock
        steady == sensor_sim_type = type /\ now - obs.now = TICK_US
    IN  /\ sensor_sim_type' = type
        /\ sensors_count' = sensors_count + 1
        /\ quad' = r.quad
        /\ air' = r.air
        /\ bus' = r.bus
        /\ obs' = [ran |-> r.ran, now |-> now, AirframeType |-> in.AirframeType,
                   Armed |-> in.Armed, Throttle |-> in.Throttle,
                   measured |-> r.loc.measured, dT |-> r.loc.dT,
                   thrust |-> r.loc.thrust, hit |-> r.loc.hit,
                   emitted |-> r.loc.emitted, written |-> r.loc.written, in |-> in]
        /\ clock' = clock + d
        /\ switches' = IF sensors_count > 0 /\ sensor_sim_type # type
                       THEN switches + 1 ELSE switches
        /\ emitLast' = [o \in Scheduled |->
                          IF o \in r.loc.written THEN now ELSE emitLast[o]]
        /\ emitGap' = [o \in Scheduled |->
                         IF o \in r.loc.written /\ emitLast[o] # -1
                         THEN now - emitLast[o] ELSE emitGap[o]]
        /\ modelLast' = [m \in Models |-> [ch \in Channels |->
                           IF m = type /\ ch \in r.loc.emitted THEN now
                           ELSE modelLast[m][ch]]]
        /\ modelGap' = [m \in Models |-> [ch \in Channels |->
                          IF m = type /\ ch \in r.loc.emitted /\ modelLast[m][ch] # -1
                          THEN [gap |-> now - modelLast[m][ch], steady |-> steady]
                          ELSE modelGap[m][ch]]]
        /\ stepLast' = [m \in Models |->
                          IF m = type
                          THEN [at |-> now, dT |-> r.loc.dT, before |-> stepLast[m].dT]
                          ELSE stepLast[m]]
        /\ UNCHANGED << accel_bias, filterVars, magcal, task >>

\* stateEstimation of one filter call, and the calls of the airspeed filter
FilterCall(state) ==
    LET r == filter(altitude, state)
    IN  /\ altitude' = r.altitude
        /\ fstate' = r.state
        /\ fhist' = Append(fhist, [op |-> "filter", in |-> state, out |-> r.state,
                                   ret |-> r.ret])
        /\ UNCHANGED << sensorVars, magcal, task >>

InitCall ==
    /\ altitude' = init(altitude).altitude
    /\ fhist' = Append(fhist, [op |-> "init", in |-> fstate, out |-> fstate,
                               ret |-> init(altitude).ret])
    /\ UNCHANGED << fstate, sensorVars, magcal, task >>

\* ------------------------------------------------------------------------
\* Inputs and bounds
\* ------------------------------------------------------------------------
MaxTicks == 2
MaxSchedTicks == 56
MaxSchedSwitches == 1
MaxSelTicks == 3
MaxCalls == 3
MaxAttTicks == 2
MaxMagCalls == 900
MaxGapTicks == 5
MaxBaroTicks == 4
MaxTaskTicks == 2

Home == [Be |-> << Fin(26000), Fin(400), Fin(40000) >>, Altitude |-> Zero]
Level == [q |-> Identity, Roll |-> Zero, Pitch |-> Zero, Yaw |-> 0]
\* 10 degrees of roll
Banked == [q |-> << Fin(996), Fin(87), Zero, Zero >>, Roll |-> Fin(10 * Scale),
           Pitch |-> Zero, Yaw |-> 0]
NoNoise == [i \in 1..13 |-> Zero]
SomeNoise == [i \in 1..13 |-> IF i % 2 = 1 THEN Fin(300) ELSE Fin(-200)]

\* armed, throttle, a common roll / pitch / yaw command (ActuatorDesired and
\* RateDesired), the attitude estimate and the noise draws
Input(type, armed, throttle, cmd, att, noise) ==
    [AirframeType |-> type, Armed |-> armed, Throttle |-> throttle,
     Roll |-> cmd, Pitch |-> Zero, Yaw |-> Zero, rate |-> << cmd, Zero, Zero >>,
     att |-> att, gyrosBias |-> ZeroVec, home |-> Home, noise |-> noise]

Throttles == {Zero, One, Fin(-500), NaN, PInf, NInf}
SomeTypes == {"QUADX", "FIXEDWING", "HELICP"}
AllTypes == FixedWingTypes \cup MultirotorTypes \cup {"HELICP", "CUSTOM", "OUT_OF_RANGE"}

\* Rich commands, short horizon: every throttle while armed, a valid and an
\* invalid throttle while disarmed, and roll commands (finite with noise and a
\* banked attitude, NaN armed and disarmed)
Inputs ==
    {Input(t, TRUE, th, Zero, Level, NoNoise) : t \in SomeTypes, th \in Throttles}
    \cup {Input(t, FALSE, th, Zero, Level, NoNoise) : t \in SomeTypes, th \in {One, NaN}}
    \cup {Input(t, TRUE, One, Fin(500), Banked, SomeNoise) : t \in SomeTypes}
    \cup {Input(t, a, One, NaN, Level, NoNoise) : t \in SomeTypes, a \in BOOLEAN}
Idle == {Input(t, FALSE, One, Zero, Level, NoNoise) : t \in SomeTypes}
\* A pass and the delay that follows it: the nominal tick, and for a resting
\* vehicle a delay below the 1 ms test and one between 1 ms and the tick
Steps == (Inputs \X {TICK_US}) \cup (Idle \X {500, 1500})
StartClocks == {500, 60000}

\* Fixed cadence, long horizon, a resting vehicle
SchedInputs == {Input(t, FALSE, Zero, Zero, Level, NoNoise) : t \in SomeTypes}
SchedStartClocks == {98000}

\* Every airframe type
SelInputs == {Input(t, FALSE, Zero, Zero, Level, NoNoise) : t \in AllTypes}

\* Manoeuvres, armed: a roll command (ActuatorDesired.Roll up to 1 for the
\* quadcopter, RateDesired.Roll up to 2000 deg/s for the airplane, and NaN),
\* and a yaw rate command with a banked attitude estimate
AttTypes == {"QUADX", "FIXEDWING"}
AttInputs ==
    {Input("QUADX", TRUE, Zero, r, Level, NoNoise) : r \in {Zero, One, NaN}}
    \cup {Input("QUADX", FALSE, Zero, Zero, Level, NoNoise)}
    \cup {Input("FIXEDWING", TRUE, Zero, r, Level, NoNoise) :
            r \in {Zero, Fin(2000 * Scale), NaN}}
    \cup {[Input(t, TRUE, Zero, Zero, Banked, NoNoise) EXCEPT !.Yaw = y, !.rate[3] = y] :
            t \in AttTypes, y \in {Zero, Fin(50 * Scale)}}
\* ... each followed by the nominal delay or by a stall of 0.9 s
AttSteps == AttInputs \X {TICK_US, 900000}

\* Attitudes held during a calibration: level heading north, level heading
\* east, and banked
Heading90 == [q |-> << Fin(707), Zero, Zero, Fin(707) >>, Roll |-> Zero, Pitch |-> Zero,
              Yaw |-> 90]
MagAttitudes == {Level, Heading90, Banked}
\* The bias in the reading: the 100 the Airplane model adds to each axis, the
\* none of the Quadcopter model, a small one, and one that reverses the
\* horizontal field read
MagInjected == {<< Fin(100 * Scale), Fin(100 * Scale), Fin(100 * Scale) >>, ZeroVec,
                << Fin(3000), Fin(-2000), Fin(5000) >>, << Fin(-30 * Scale), Zero, Zero >>}
\* mag = bias + Rbe Be
MagReading(att, inj) ==
    Map3(LAMBDA i : FAdd(inj[i], Row(Quaternion2R(att.q), i, Home.Be)))

\* A resting vehicle with and without noise, at the nominal delay and at a
\* stall of 30 ms, from an early and a late start of the task
BaroInputs ==
    {Input(t, FALSE, Zero, Zero, Level, n) : t \in AttTypes, n \in {NoNoise, SomeNoise}}
BaroStartClocks == {500, 98000}

\* 2.0 * ((float) rand() / RAND_MAX) - 1: values of [-1, 1]
Uniform == {Fin(-Scale), Fin(-500), Zero, Fin(500), One}

FilterStates ==
    {[updated |-> u, bar |-> b, air |-> << a, t >>] :
        u \in SUBSET {"bar", "air"}, b \in {Fin(304800), Fin(1524000)},
        a \in {Fin(10000), Fin(30000)}, t \in {Zero, Fin(12000)}}

\* ------------------------------------------------------------------------
\* Specifications
\* ------------------------------------------------------------------------
InitBut(clocks, biases) ==
    /\ clock \in clocks
    /\ sensor_sim_type = "CONSTANT"
    /\ sensors_count = 0
    /\ accel_bias \in biases
    /\ quad = QuadInit
    /\ air = AirInit
    /\ bus = BusInit
    /\ obs = ObsInit
    /\ switches = 0
    /\ emitLast = [o \in Scheduled |-> -1]
    /\ emitGap = [o \in Scheduled |-> -1]
    /\ modelLast = [m \in Models |-> [ch \in Channels |-> -1]]
    /\ modelGap = [m \in Models |-> [ch \in Channels |-> [gap |-> -1, steady |-> FALSE]]]
    /\ stepLast = [m \in Models |-> [at |-> -1, dT |-> -1, before |-> -1]]
    /\ altitude = Zero
    /\ fstate = [updated |-> {}, bar |-> Zero, air |-> << Zero, Zero >>]
    /\ fhist = << >>
    /\ task = [pc |-> "loop", type |-> "CONSTANT", calls |-> 0, v1 |-> Zero, v2 |-> Zero,
               retried |-> FALSE, ret |-> "none", ticks |-> 0]

InitWith(clocks, biases) ==
    /\ InitBut(clocks, biases)
    /\ magcal = [raw |-> ZeroVec, att |-> Level, calls |-> 0]

Init == InitWith(StartClocks, {ZeroVec, << Fin(50), Fin(-100), Fin(20) >>})

Tick ==
    /\ sensors_count < MaxTicks
    /\ \E st \in Steps : SensorsTask(st[1], st[2])

Next == Tick

Spec == Init /\ [][Next]_vars

\* The task at its fixed cadence
SchedInit == InitWith(SchedStartClocks, {ZeroVec})

SchedTick ==
    /\ sensors_count < MaxSchedTicks
    /\ \E in \in SchedInputs :
         /\ sensors_count > 0 /\ Select(in.AirframeType) # sensor_sim_type
              => switches < MaxSchedSwitches
         /\ SensorsTask(in, TICK_US)

SpecSched == SchedInit /\ [][SchedTick]_vars

\* Every airframe type
SelTick ==
    /\ sensors_count < MaxSelTicks
    /\ \E in \in SelInputs : SensorsTask(in, TICK_US)

SpecSel == SchedInit /\ [][SelTick]_vars

\* Manoeuvres
AttTick ==
    /\ sensors_count < MaxAttTicks
    /\ \E st \in AttSteps : SensorsTask(st[1], st[2])

AttInit == InitWith(SchedStartClocks, {ZeroVec, << Fin(50), Fin(-100), Fin(20) >>})

SpecAtt == AttInit /\ [][AttTick]_vars

\* magOffsetEstimation(&mag) with the reading and the attitude held in magcal:
\* MagBiasGet, the update, MagBiasSet; the caller publishes the corrected mag
MagCall ==
    \E r \in {magOffsetEstimation(magcal.raw, bus.MagBias, Home, magcal.att)} :
        /\ bus' = [bus EXCEPT !.MagBias = r.magBias, !.Magnetometer = r.mag]
        /\ magcal' = [magcal EXCEPT !.calls = @ + 1]
        /\ UNCHANGED << clock, sensor_sim_type, sensors_count, accel_bias, quad, air, obs,
                        switches, emitLast, emitGap, modelLast, modelGap, stepLast,
                        filterVars, task >>

MagInit ==
    /\ InitBut({0}, {ZeroVec})
    /\ magcal \in {[raw |-> MagReading(att, inj), att |-> att, calls |-> 0] :
                     att \in MagAttitudes, inj \in MagInjected}

MagNext ==
    /\ magcal.calls < MaxMagCalls
    /\ MagCall

SpecMag == MagInit /\ [][MagNext]_vars

\* The magnetometer block calls magOffsetEstimation every MAG_PERIOD for as
\* long as the task runs: the next call is made.  The steps of SpecMag that
\* count a call are the steps of MagNext, which is enabled while calls remain.
MagCalled ==
    /\ magcal.calls < MaxMagCalls
    /\ magcal' = [magcal EXCEPT !.calls = @ + 1]

SpecMagFair == SpecMag /\ WF_magcal(MagCalled)

\* Changes of the selected model, at the nominal delay and a longer one
GapTick ==
    /\ sensors_count < MaxGapTicks
    /\ \E in \in SchedInputs, d \in {TICK_US, 3000} : SensorsTask(in, d)

SpecGap == SchedInit /\ [][GapTick]_vars

\* The barometer offset
BaroTick ==
    /\ sensors_count < MaxBaroTicks
    /\ \E in \in BaroInputs, d \in {TICK_US, 30000} : SensorsTask(in, d)

SpecBaro == InitWith(BaroStartClocks, {ZeroVec}) /\ [][BaroTick]_vars

\* ------------------------------------------------------------------------
\* The control flow of one tick: SensorsTask, the step function's calls of
\* rand_gauss, and rand_gauss's do-while loop
\* ------------------------------------------------------------------------
\* The number of rand_gauss() calls of a step function: none in
\* simulateConstant, the 3 gyros in simulateModelAgnostic; in a model the
\* gyros, the wind and the GPS velocity drift, the barometer drift unless the
\* offset is seeded, and the GPS drift when the GPS block runs
GaussCalls(type) ==
    CASE type = "CONSTANT" -> {0}
      [] type = "MODEL_AGNOSTIC" -> {3}
      [] OTHER -> {9, 10, 12, 13}

\* s = v1*v1 + v2*v2
GaussS(v1, v2) == FAdd(FMul(v1, v1), FMul(v2, v2))

\* Mutant of Rejected: the loop condition never fails
RejectedAlways(s) == TRUE

\* while ( s >= 1.0 )
Rejected(s) == FLe(One, s)

\* while (1) { ... switch (sensor_sim_type) { ... simulateX(); }: the step
\* function is entered ("none": the type is still the initial CONSTANT)
TaskStep ==
    /\ task.pc = "loop"
    /\ task.ticks < MaxTaskTicks
    /\ \E t \in SomeTypes \cup {"none"} :
         \E n \in GaussCalls(IF t = "none" THEN "CONSTANT" ELSE Select(t)) :
           task' = [task EXCEPT !.type = IF t = "none" THEN "CONSTANT" ELSE Select(t),
                                !.calls = n,
                                !.retried = FALSE,
                                !.pc = IF n = 0 THEN "delay" ELSE "gauss"]
    /\ UNCHANGED << sensorVars, filterVars, magcal >>

\* rand_gauss: a pass of the do-while body whose s fails the test: once more
GaussRetry ==
    /\ task.pc = "gauss"
    /\ \E v1 \in Uniform, v2 \in Uniform :
         /\ Rejected(GaussS(v1, v2))
         /\ task' = [task EXCEPT !.v1 = v1, !.v2 = v2, !.retried = TRUE]
    /\ UNCHANGED << sensorVars, filterVars, magcal >>

\* rand_gauss: a pass whose s ends the loop; the function returns (0.0 when
\* s == 0.0, else v1 * sqrt(-2 log(s) / s)) and the step function goes on to
\* its next call, or to its end
GaussReturn ==
    /\ task.pc = "gauss"
    /\ \E v1 \in Uniform, v2 \in Uniform :
         /\ ~Rejected(GaussS(v1, v2))
         /\ task' = [task EXCEPT !.v1 = v1, !.v2 = v2,
                                !.ret = IF FEq(GaussS(v1, v2), Zero) THEN "zero"
                                        ELSE "boxmuller",
                                !.calls = @ - 1,
                                !.retried = IF task.calls = 1 THEN @ ELSE FALSE,
                                !.pc = IF task.calls = 1 THEN "delay" ELSE "gauss"]
    /\ UNCHANGED << sensorVars, filterVars, magcal >>

\* vTaskDelay(2 / portTICK_RATE_MS), and back to the head of the loop
TaskDelay ==
    /\ task.pc = "delay"
    /\ task' = [task EXCEPT !.pc = "loop", !.ticks = @ + 1]
    /\ UNCHANGED << sensorVars, filterVars, magcal >>

TaskNext == TaskStep \/ GaussRetry \/ GaussReturn \/ TaskDelay

SpecTask == InitWith({0}, {ZeroVec}) /\ [][TaskNext]_vars

\* A fair random source: rand() does not for ever return pairs outside the
\* unit disc.  The scheduler runs the task.
SpecTaskFair == SpecTask /\ WF_vars(GaussReturn) /\ WF_vars(TaskDelay)

\* The airspeed filter
FilterStep ==
    /\ Len(fhist) < MaxCalls
    /\ \E st \in FilterStates : FilterCall(st)

FilterInit ==
    /\ Len(fhist) < MaxCalls
    /\ InitCall

FilterNext == FilterStep \/ FilterInit

SpecFilter == InitWith({0}, {ZeroVec}) /\ [][FilterNext]_vars


\* ------------------------------------------------------------------------
\* Properties
\* ------------------------------------------------------------------------
StaticsOf(m) == IF m = "MODEL_QUADCOPTER" THEN quad ELSE air
StepOf(m) == IF m = "MODEL_QUADCOPTER" THEN "simulateModelQuadcopter"
             ELSE "simulateModelAirplane"
Dynamic == {"simulateModelQuadcopter", "simulateModelAirplane"}
\* An elapsed time in microseconds is more than the period of the channel
Exceeds(el, ch) == el * PeriodDen(ch) > PeriodNum(ch)

\* C1 as stated: on a Quadcopter or Airplane tick a channel publishes if and
\* only if the time since its own last emission is >= its period; a publishing
\* channel sets its timer to the clock, any other keeps it.
C1_Original ==
    [][\A m \in Models : \A ch \in ChannelsOf(m) :
         sensor_sim_type' = m =>
           /\ ch \in obs'.emitted <=> (clock - Timer(StaticsOf(m), ch)) * PeriodDen(ch) >= PeriodNum(ch)
           /\ Object(ch) \in obs'.written <=> ch \in obs'.emitted
           /\ Timer(StaticsOf(m)', ch) =
                IF ch \in obs'.emitted THEN clock ELSE Timer(StaticsOf(m), ch)]_vars

\* C1 amended: on a Quadcopter or Airplane tick a channel publishes if and only
\* if the time since its own last emission strictly exceeds its period (an
\* elapsed time exactly equal to the period does not publish); a publishing
\* channel sets its timer to the clock, any other keeps it.
C1_Amended ==
    [][\A m \in Models : \A ch \in ChannelsOf(m) :
         sensor_sim_type' = m =>
           /\ ch \in obs'.emitted <=> Exceeds(clock - Timer(StaticsOf(m), ch), ch)
           /\ Object(ch) \in obs'.written <=> ch \in obs'.emitted
           /\ Timer(StaticsOf(m)', ch) =
                IF ch \in obs'.emitted THEN clock ELSE Timer(StaticsOf(m), ch)]_vars

\* A Quadcopter tick exactly one GPS period after the last GPS emission: the
\* channel stays silent and keeps its timer, while another channel publishes.
C1_Witness ==
    /\ obs.ran = "simulateModelQuadcopter"
    /\ obs.now - quad.last_gps_time = GPS_PERIOD_US
    /\ "gps" \notin obs.emitted
    /\ "mag" \in obs.emitted
    /\ quad.last_mag_time = obs.now

\* C2 as stated: for every scheduled object on the bus the interval between two
\* consecutive updates is at least the channel's period and at most the period
\* plus one tick, whatever models ran (update times non-decreasing).
ChannelOf(o) == CHOOSE ch \in Channels : Object(ch) = o
C2_Original ==
    \A o \in Scheduled :
        /\ emitLast[o] <= clock
        /\ emitGap[o] # -1 =>
             /\ emitGap[o] * PeriodDen(ChannelOf(o)) >= PeriodNum(ChannelOf(o))
             /\ (emitGap[o] - TICK_US) * PeriodDen(ChannelOf(o)) <= PeriodNum(ChannelOf(o))

\* C2 amended: for each channel of the Quadcopter or Airplane model the
\* emission times of that model are non-decreasing, two consecutive emissions
\* of that model are more than one period apart, and at most the period plus
\* one tick apart when the model also ran on the previous tick, one nominal
\* tick earlier.  (The intervals seen on the bus are not bounded below:
\* ModelAgnostic writes barometer, GPS position and magnetometer on every
\* tick, and a newly selected model emits from its own timers.)
C2_Amended ==
    [][\A m \in Models : \A ch \in ChannelsOf(m) :
         /\ modelLast'[m][ch] >= modelLast[m][ch]
         /\ modelGap'[m][ch].gap # -1 =>
              /\ Exceeds(modelGap'[m][ch].gap, ch)
              /\ modelGap'[m][ch].steady =>
                   (modelGap'[m][ch].gap - TICK_US) * PeriodDen(ch) <= PeriodNum(ch)]_vars

\* The Quadcopter's second GPS emission at the fixed cadence, one period and
\* one tick after its first.
C2_Witness ==
    /\ modelGap["MODEL_QUADCOPTER"]["gps"] = [gap |-> GPS_PERIOD_US + TICK_US, steady |-> TRUE]
    /\ modelGap["MODEL_QUADCOPTER"]["baro"].gap = BARO_PERIOD_US + TICK_US

\* C3: within a Quadcopter or Airplane tick the channels are independent: the
\* set that emits is exactly the set of channels whose own timer is more than
\* their own period behind the clock, whatever the other channels do, and the
\* emission of one channel changes no other channel's timer.
C3_Independent ==
    [][\A m \in Models :
         sensor_sim_type' = m =>
           /\ obs'.emitted = {ch \in ChannelsOf(m) :
                                Exceeds(clock - Timer(StaticsOf(m), ch), ch)}
           /\ \A c \in obs'.emitted : \A d \in ChannelsOf(m) \ obs'.emitted :
                Timer(StaticsOf(m)', d) = Timer(StaticsOf(m), d)]_vars

\* An Airplane tick on which barometer and airspeed emit together while the
\* magnetometer, which emitted on an earlier tick, does not.
C3_Witness ==
    /\ obs.ran = "simulateModelAirplane"
    /\ {"baro", "airspeed"} \subseteq obs.emitted
    /\ "mag" \notin obs.emitted
    /\ modelLast["MODEL_AIRPLANE"]["mag"] # -1


\* C4: every pass runs exactly one step function, chosen from the airframe
\* type read on that pass: fixed-wing types run the Airplane step, multirotor
\* and VTOL types the Quadcopter step, every other value the ModelAgnostic
\* step; in every state, whatever value the next pass reads, that pass runs
\* its step (no value stops the task).
StepFor(airframeType) ==
    CASE airframeType \in {"FIXEDWING", "FIXEDWINGELEVON", "FIXEDWINGVTAIL"}
           -> "simulateModelAirplane"
      [] airframeType \in {"QUADX", "QUADP", "VTOL", "HEXA", "OCTO"}
           -> "simulateModelQuadcopter"
      [] OTHER -> "simulateModelAgnostic"
C4_Selection ==
    /\ sensors_count > 0 => obs.ran = StepFor(obs.AirframeType)
    /\ \A in \in SelInputs :
         Dispatch(Select(in.AirframeType), quad, air, bus, accel_bias, clock, in).ran
           = StepFor(in.AirframeType)

\* An out-of-range airframe type ran the ModelAgnostic step, after a pass
\* that ran something else.
C4_Witness ==
    /\ obs.AirframeType = "OUT_OF_RANGE"
    /\ obs.ran = "simulateModelAgnostic"
    /\ sensors_count = 2
    /\ quad # QuadInit

\* C5: a pass that runs one model leaves the statics of every other model
\* unchanged: the Airplane's position, velocity, quaternion, rates, drifts,
\* barometric offset and timers change only when the Airplane step runs, and
\* likewise for the Quadcopter; a change of selection resets none of them.
C5_Frame ==
    [][/\ obs'.ran # "simulateModelAirplane" => air' = air
       /\ obs'.ran # "simulateModelQuadcopter" => quad' = quad]_vars

\* The Quadcopter step ran after the Airplane step had moved the Airplane's
\* statics, which are still as the Airplane left them.
C5_Witness ==
    /\ obs.ran = "simulateModelQuadcopter"
    /\ sensor_sim_type = "MODEL_QUADCOPTER"
    /\ air.pos # AirInit.pos
    /\ air.last_time # 0
    /\ quad.last_time = obs.now

\* C6 as stated: after every Quadcopter or Airplane step the stored and the
\* published down position satisfy pos[2] <= 0, and when the ground contact
\* fired the down position and the down velocity are exactly 0.
C6_Original ==
    \A m \in Models :
        obs.ran = StepOf(m) =>
          /\ FLe(StaticsOf(m).pos[3], Zero)
          /\ FLe(bus.AttitudeSimulated.Position[3], Zero)
          /\ obs.hit => StaticsOf(m).pos[3] = Zero /\ StaticsOf(m).vel[3] = Zero

\* C6 amended: after every Quadcopter or Airplane step the stored and the
\* published down position are never greater than 0 (they are <= 0, or NaN
\* once a NaN command or an infinite thrust has entered the state), and when
\* the ground contact fired the down position and down velocity are exactly 0.
C6_Amended ==
    \A m \in Models :
        obs.ran = StepOf(m) =>
          /\ ~FGt(StaticsOf(m).pos[3], Zero)
          /\ bus.AttitudeSimulated.Position = StaticsOf(m).pos
          /\ bus.AttitudeSimulated.Velocity = StaticsOf(m).vel
          /\ obs.hit => StaticsOf(m).pos[3] = Zero /\ StaticsOf(m).vel[3] = Zero

\* A second Quadcopter step on which gravity took the vehicle through the
\* ground plane and the contact put it back, at rest vertically.
C6_Witness ==
    /\ obs.ran = "simulateModelQuadcopter"
    /\ obs.hit
    /\ sensors_count = 2
    /\ quad.pos[3] = Zero
    /\ quad.vel[3] = Zero
    /\ bus.AttitudeSimulated.Position[3] = Zero

RECURSIVE LastBar(_, _)
LastBar(h, i) ==
    IF i = 0 \/ h[i].op = "init" THEN Zero
    ELSE IF "bar" \in h[i].in.updated THEN h[i].in.bar
    ELSE LastBar(h, i - 1)
C8_TrueAirspeed ==
    \A i \in 1..Len(fhist) :
        fhist[i].op = "filter" =>
          /\ fhist[i].ret = 0
          /\ "air" \in fhist[i].in.updated =>
               fhist[i].out.air[2] =
                 FMul(fhist[i].in.air[1],
                      FAdd(One, FDiv(FMul(Fin(20), LastBar(fhist, i)), Fin(304800))))

\* A call that carries a new barometer value, different from the stored one,
\* together with a new airspeed.
C8_Witness ==
    \E i \in 2..Len(fhist) :
        /\ fhist[i].op = "filter"
        /\ fhist[i].in.updated = {"bar", "air"}
        /\ LastBar(fhist, i - 1) \notin {Zero, fhist[i].in.bar}
        /\ fhist[i].out.air[2] # fhist[i].in.air[1]

\* C9: init() returns 0 and sets the stored altitude to zero whatever came
\* before: a filter call with the airspeed flag set and the baro flag clear,
\* with no baro update since the init(), yields air[1] = air[0].
C9_InitResets ==
    /\ \A i \in 1..Len(fhist) : fhist[i].op = "init" => fhist[i].ret = 0
    /\ Len(fhist) > 0 /\ fhist[Len(fhist)].op = "init" => altitude = Zero
    /\ \A j \in 1..Len(fhist) : \A i \in (j + 1)..Len(fhist) :
         /\ fhist[j].op = "init"
         /\ \A k \in (j + 1)..(i - 1) : fhist[k].op = "filter" /\ "bar" \notin fhist[k].in.updated
         /\ fhist[i].op = "filter" /\ fhist[i].in.updated = {"air"}
         => fhist[i].out.air[2] = fhist[i].in.air[1]

\* A baro update, then init(), then an airspeed-only call.
C9_Witness ==
    \E i \in 3..Len(fhist) :
        /\ fhist[i - 2].op = "filter" /\ "bar" \in fhist[i - 2].in.updated
        /\ fhist[i - 1].op = "init"
        /\ fhist[i].op = "filter" /\ fhist[i].in.updated = {"air"}
        /\ fhist[i].out.air[2] = fhist[i].in.air[1]
        /\ fhist[i].in.air[1] # Zero

\* C10 as stated: the elapsed time used is max(measured, minimum) with the
\* minimum the 1 ms of the test: the minimum when the measured time since the
\* model's previous step is below it, the measured time otherwise.
C10_Original ==
    [][\A m \in Models :
         sensor_sim_type' = m =>
           /\ obs'.measured = clock - StaticsOf(m).last_time
           /\ obs'.dT = IF obs'.measured > DT_MIN_US THEN obs'.measured ELSE DT_MIN_US]_vars

\* C10 amended: the elapsed time used is the measured time since the model's
\* previous step when that is at least 1 ms, and 2 ms when it is below 1 ms
\* (not a floor: a measured 1.5 ms is used as it is, below the 2 ms
\* substitute); the step restarts the model's clock.
C10_Amended ==
    [][\A m \in Models :
         sensor_sim_type' = m =>
           /\ obs'.measured = clock - StaticsOf(m).last_time
           /\ obs'.dT = IF obs'.measured < DT_MIN_US THEN DT_DEFAULT_US ELSE obs'.measured
           /\ obs'.dT >= DT_MIN_US
           /\ StaticsOf(m)'.last_time = clock]_vars

\* A Quadcopter step half a millisecond after the previous one used 2 ms.
C10_Witness ==
    /\ obs.ran = "simulateModelQuadcopter"
    /\ sensors_count = 2
    /\ obs.measured < DT_MIN_US
    /\ obs.dT = DT_DEFAULT_US

\* ------------------------------------------------------------------------
\* C11.  As claimed: after every integration step of the Quadcopter or the
\* Airplane model, for any commanded rates and any elapsed time, the stored
\* quaternion and the published simulated attitude are finite and of norm 1
\* within the rounding tolerance.
\* As the code has it: the claim holds for a step that starts from a unit
\* quaternion and integrates finite rates; a NaN rate command makes the
\* quaternion NaN, and it stays NaN on every later step.
\* ------------------------------------------------------------------------
\* q[0]^2 + q[1]^2 + q[2]^2 + q[3]^2, the radicand of qmag
NormSq(q) == FAdd(FAdd(FAdd(FMul(q[1], q[1]), FMul(q[2], q[2])), FMul(q[3], q[3])),
                  FMul(q[4], q[4]))
\* norm 1 within the resolution of the stored components
IsUnit(q) ==
    /\ \A i \in 1..4 : IsFin(q[i])
    /\ FLe(Fin(Scale - 10), NormSq(q)) /\ FLe(NormSq(q), Fin(Scale + 10))

AtRest(s) ==
    /\ s.pos = ZeroVec /\ s.vel = ZeroVec /\ s.q = Identity
    /\ s.rpy = ZeroVec /\ s.wind = ZeroVec
ZeroCommand(in) ==
    /\ in.Throttle = Zero /\ in.Roll = Zero /\ in.Pitch = Zero /\ in.Yaw = Zero
    /\ in.noise = NoNoise

C12_RestFixedPoint ==
    [][(obs'.ran = "simulateModelQuadcopter" /\ AtRest(quad) /\ ZeroCommand(obs'.in))
         => /\ AtRest(quad')
            /\ bus'.AttitudeSimulated.q = Identity
            /\ bus'.AttitudeSimulated.Position = ZeroVec
            /\ bus'.AttitudeSimulated.Velocity = ZeroVec
            /\ bus'.Gyros = ZeroVec
            /\ bus'.Accels.v = << accel_bias[1], accel_bias[2],
                                  FAdd(Fin(-GRAV), accel_bias[3]) >>]_vars

\* a resting step that is not the first, armed, with a sensor bias
C12_Witness ==
    /\ obs.ran = "simulateModelQuadcopter"
    /\ sensors_count >= 2
    /\ obs.Armed /\ ZeroCommand(obs.in)
    /\ accel_bias # ZeroVec
    /\ AtRest(quad) /\ obs.hit
    /\ bus.Accels.v[3] = Fin(20 - GRAV)

\* ------------------------------------------------------------------------
\* C13.  As claimed: from a zero bias estimate, with a constant attitude and a
\* reading equal to the rotated home field plus a fixed bias, every call of
\* magOffsetEstimation leaves the estimate no farther from that bias than it
\* was, and the estimate converges to the bias.
\* As the code has it: the update compares only the horizontal magnitude and
\* the vertical component of the corrected field with the home field.  With a
\* level attitude the vertical error never grows and goes to zero; the
\* horizontal magnitude |xy| of the corrected field goes to Rxy; while |xy| is
\* not below Rxy the distance to the bias does not grow.  The horizontal
\* estimate stops where |xy| = Rxy, in general away from the bias, and when
\* the bias reverses the horizontal field read the distance grows.
\* (Tolerances: the rounding of one update.)
\* ------------------------------------------------------------------------
\* the bias in the reading, and the error of an estimate
Injected == VSub(magcal.raw, MagReading(magcal.att, ZeroVec))
MagError(est) == VSub(Injected, est)
DistSq(e) == FAdd(FAdd(FMul(e[1], e[1]), FMul(e[2], e[2])), FMul(e[3], e[3]))
FAbs(a) == IF FLt(a, Zero) THEN FNeg(a) ELSE a
\* |xy| - Rxy of the reading corrected by an estimate
Excess(est) ==
    FSub(Norm2(MagXY(MagEarth(VSub(magcal.raw, est), Quaternion2R(magcal.att.q)),
                     CosDeg(magcal.att.Yaw), SinDeg(magcal.att.Yaw))),
         Norm2(<< Home.Be[1], Home.Be[2] >>))
IsLevel == magcal.att.Roll = Zero /\ magcal.att.Pitch = Zero

Coupling(in) == FMul(in.att.Roll, Fin(ROLL_HEADING_COUPLING))

C14_Original ==
    [][(obs.ran = "simulateModelAirplane" /\ obs'.ran = "simulateModelAirplane")
         => /\ air'.rpy[3] =
                 FAdd(LowPass(obs'.in.Armed, obs'.in.rate[3], One, AIR_ACTUATOR_ALPHA,
                              FSub(air.rpy[3], Coupling(obs.in))),
                      Coupling(obs'.in))
            /\ bus'.Gyros[3] = FAdd(air'.rpy[3], obs'.in.noise[3])]_vars

\* ------------------------------------------------------------------------
\* C15.  A model that stepped at t0 and steps again at t1 integrates that
\* step with the elapsed time t1 - t0, whether it was selected on the ticks
\* in between or not: the first step after a re-selection takes the whole
\* gap, and the step that follows it takes only the time since that step, so
\* there is one large step per re-selection.
\* ------------------------------------------------------------------------
C15_GapStep ==
    [][\A m \in Models :
         (obs'.ran = StepOf(m) /\ stepLast[m].at # -1)
           => /\ obs'.measured = obs'.now - stepLast[m].at
              /\ obs'.dT = obs'.measured
              /\ StaticsOf(m).last_time = stepLast[m].at]_vars

\* the quadcopter stepped, was not selected for at least one tick, stepped
\* with the whole gap, and stepped again with the time since that step
C15_Witness ==
    /\ obs.ran = "simulateModelQuadcopter"
    /\ stepLast["MODEL_QUADCOPTER"].before > 3000
    /\ stepLast["MODEL_QUADCOPTER"].before < 98000
    /\ stepLast["MODEL_QUADCOPTER"].dT \in {TICK_US, 3000}
    /\ obs.dT = stepLast["MODEL_QUADCOPTER"].dT

\* ------------------------------------------------------------------------
\* C16.  As claimed: every barometer altitude a model publishes is minus its
\* vertical position plus its current offset, and the offset is the seed (50)
\* at the model's very first barometer emission and the seed plus the random
\* walk afterwards.
\* As the code has it: the offset is seeded on the model's first step, where
\* it is 0, and walks on every later step, emission or not; a first emission
\* that comes after the first step publishes the seed plus the walk so far.
\* The offset of the reachable states is never 0 after the first step, so it
\* is not seeded again.
\* ------------------------------------------------------------------------
Walk(off, in) == FAdd(off, FDiv(in.noise[7], Fin(100 * Scale)))

C16_Original ==
    [][\A m \in Models :
         (obs'.ran = StepOf(m) /\ "baro" \in obs'.emitted)
           => /\ bus'.BaroAltitude = FAdd(FNeg(StaticsOf(m).pos[3]), StaticsOf(m).baro_offset)'
              /\ modelLast[m]["baro"] = -1 => (StaticsOf(m).baro_offset)' = Fin(BARO_SEED)
              /\ modelLast[m]["baro"] # -1
                   => (StaticsOf(m).baro_offset)' = Walk(StaticsOf(m).baro_offset, obs'.in)]_vars

C16_Amended ==
    [][\A m \in Models :
         obs'.ran = StepOf(m)
           => /\ "baro" \in obs'.emitted
                   => bus'.BaroAltitude =
                        FAdd(FNeg(StaticsOf(m).pos[3]), StaticsOf(m).baro_offset)'
              /\ stepLast[m].at = -1 => (StaticsOf(m).baro_offset)' = Fin(BARO_SEED)
              /\ stepLast[m].at # -1
                   => /\ StaticsOf(m).baro_offset # Zero
                      /\ (StaticsOf(m).baro_offset)'
                            = Walk(StaticsOf(m).baro_offset, obs'.in)]_vars

\* the first barometer emission of the Quadcopter, after its first step: the
\* published altitude carries an offset that has left the seed
C16_Witness ==
    /\ obs.ran = "simulateModelQuadcopter" /\ "baro" \in obs.emitted
    /\ modelGap["MODEL_QUADCOPTER"]["baro"].gap = -1
    /\ stepLast["MODEL_QUADCOPTER"].before # -1
    /\ quad.baro_offset # Fin(BARO_SEED)
    /\ bus.BaroAltitude = FAdd(FNeg(quad.pos[3]), quad.baro_offset)

\* ------------------------------------------------------------------------
\* C17.  Every tick terminates: with a fair random source each call of
\* rand_gauss leaves its retry loop and returns, and SensorsTask, once it has
\* entered a step function, reaches the delay at the end of the tick.
\* ------------------------------------------------------------------------
C17_Terminates ==
    /\ (task.pc = "gauss" /\ task.retried) ~> ~(task.pc = "gauss" /\ task.retried)
    /\ (task.pc = "gauss") ~> (task.pc = "delay")

\* a model's tick whose last rand_gauss call went round its loop before it
\* returned, at the delay
C17_Witness ==
    /\ task.pc = "delay" /\ task.calls = 0 /\ task.retried
    /\ task.type = "MODEL_QUADCOPTER" /\ task.ret = "boxmuller"

\* ------------------------------------------------------------------------
\* C18.  A call of filter(state) changes nothing but the stored altitude and
\* air[1]: the updated flags, bar[0] and air[0] come back as they went in,
\* air[1] is unchanged when the airspeed flag is clear, the stored altitude is
\* unchanged when the barometer flag is clear, and nothing of the sensor
\* simulation is touched.
\* ------------------------------------------------------------------------
C18_FilterFrame ==
    [][(Len(fhist') = Len(fhist) + 1 /\ fhist'[Len(fhist')].op = "filter")
         => /\ fhist'[Len(fhist')].out.updated = fhist'[Len(fhist')].in.updated
            /\ fhist'[Len(fhist')].out.bar = fhist'[Len(fhist')].in.bar
            /\ fhist'[Len(fhist')].out.air[1] = fhist'[Len(fhist')].in.air[1]
            /\ "air" \notin fhist'[Len(fhist')].in.updated
                 => fhist'[Len(fhist')].out.air[2] = fhist'[Len(fhist')].in.air[2]
            /\ "bar" \notin fhist'[Len(fhist')].in.updated => altitude' = altitude
            /\ fstate' = fhist'[Len(fhist')].out
            /\ sensorVars' = sensorVars]_vars

\* a call with only the barometer flag set and a true airspeed already in the
\* record: the altitude is taken, the airspeeds and the flags stay
C18_Witness ==
    /\ Len(fhist) > 0
    /\ fhist[Len(fhist)].op = "filter"
    /\ fhist[Len(fhist)].in.updated = {"bar"}
    /\ fhist[Len(fhist)].in.air[2] = Fin(12000)
    /\ fstate = fhist[Len(fhist)].in
    /\ altitude = fstate.bar /\ altitude # Zero

=============================================================================
